---- MODULE Spec2Model ----
(***************************************************************************)
(* Model of the Git protocol pack generator of Mononoke                    *)
(* (eden/mononoke/git/protocol/src/generator.rs): ref resolution, the      *)
(* commit set, object counting, the delta chooser, the base item provider  *)
(* and the three chained, order-preserving buffered sub-streams.           *)
(*                                                                         *)
(* Strings are sequences of tokens ("refs/", "heads/", "main", ...), so    *)
(* that concatenation is \o and starts_with is a prefix test.              *)
(* Object ids are pairs <<kind, n>>: <<"c", n>> the Git commit of          *)
(* changeset n, <<"t", n>> a tag object, <<"o", n>> a tree or blob.        *)
(***************************************************************************)
EXTENDS Integers, Sequences, FiniteSets, TLC

\* ------------------------------------------------------------------ bounds

\* Changesets of the repository snapshot are 1..MaxCommits.
MaxCommits == 3
\* Longest delta manifest (sub-entries of one changeset).
MaxEntries == 2
\* Largest have_heads / bases set of a request.
MaxHaves == 1
\* Largest object size and delta instruction size of the delta chooser's inputs.
MaxSize == 4
\* Most pre-computed deltas of one manifest entry.
MaxDeltas == 2
\* base_packfile_item computations running side by side.
MaxCalls == 2

\* ------------------------------------------------- constants of the source

\* try_buffer_unordered(1000) of trees_and_blobs_count
CountWindow == 1000
\* try_buffered(1000) of blob_and_tree_packfile_items (per entry)
EntryWindow == 1000
\* try_buffered(500) of blob_and_tree_packfile_stream (per commit)
TreeWindow == 500
\* try_buffered(1000) of commit_packfile_stream
CommitWindow == 1000
\* try_buffered(500) of tag_entries_to_stream
TagWindow == 500

HEAD_REF == <<"HEAD">>
TAGS_PREFIX == <<"tags/">>
REFS_PREFIX == <<"refs/">>

\* ------------------------------------------------------------------- state

VARIABLES
    \* the repository snapshot (read-only collaborators)
    parents,        \* commit graph: changeset -> set of parent changesets
    manifest,       \* changeset -> sequence of GitDeltaManifestEntry
    bookmarkTable,  \* publishing bookmarks: BookmarkKey -> changeset
    gitMap,         \* bonsai_git_mapping: changeset -> Git commit id (partial)
    tagMap,         \* bonsai_tag_mapping: set of [tag_name, tag_hash]
    symrefTable,    \* git_symbolic_refs: set of [symref_name, ref_name_with_type]
    \* the blob store keyspace of pre-encoded packfile base items:
    \* object id -> stored base item
    store,
    \* base_packfile_item computations running side by side, each at its
    \* own await point
    calls,
    \* the request and the handlers' responses
    req,
    lsResp,
    resp,
    \* the composed stream: the segment being polled and its buffers
    seg,
    outer,
    buf,
    out

repoVars == <<parents, manifest, bookmarkTable, gitMap, tagMap, symrefTable>>
streamVars == <<seg, outer, buf, out>>
vars == <<parents, manifest, bookmarkTable, gitMap, tagMap, symrefTable,
          store, calls, req, lsResp, resp, seg, outer, buf, out>>

Commits == 1 .. MaxCommits

\* ----------------------------------------------------------------- strings

StartsWith(s, p) == Len(p) <= Len(s) /\ SubSeq(s, 1, Len(p)) = p

\* BookmarkKey: a bookmark is known by its name, "heads/<x>" or "tags/<x>".
BookmarkName(b) == b
BookmarkToString(b) == b
WithName(n) == n
IsTag(b) == StartsWith(b, TAGS_PREFIX)
ValidBookmarkName(n) == n /= <<>>

\* ObjectId::to_hex: the lowercase hex string of the id, one token per part
HexDigits == <<"0", "1", "2", "3", "4", "5", "6", "7", "8", "9">>
ToHex(oid) == <<oid[1], HexDigits[oid[2] + 1]>>

GitCommitOid(c) == <<"c", c>>

Plain(oid) == [kind |-> "Plain", id |-> oid, meta |-> <<>>]
WithMetadata(oid, m) == [kind |-> "WithMetadata", id |-> oid, meta |-> m]

\* FxHashMap::extend: the entries of g replace those of f
Extend(f, g) ==
    [k \in (DOMAIN f) \cup (DOMAIN g) |-> IF k \in DOMAIN g THEN g[k] ELSE f[k]]

NoMap == [k \in {} |-> 0]

\* ------------------------------------------------------------ Ref Resolver

\* variant: the prefixes matched against the bare bookmark name
KeepBookmarkBareName(rr, b) ==
    LET name == BookmarkName(b) IN
    CASE rr.kind = "Included" -> name \in rr.names
      [] rr.kind = "IncludedWithPrefix" ->
            \E p \in rr.names : StartsWith(name, p)
      [] rr.kind = "Excluded" -> name \notin rr.names
      [] rr.kind = "IncludedWithValue" -> name \in DOMAIN rr.value

KeepBookmark(rr, b) ==
    LET name == BookmarkName(b) IN
    CASE rr.kind = "Included" -> name \in rr.names
      [] rr.kind = "IncludedWithPrefix" ->
            \E p \in rr.names : StartsWith(REFS_PREFIX \o name, p)
      [] rr.kind = "Excluded" -> name \notin rr.names
      [] rr.kind = "IncludedWithValue" -> name \in DOMAIN rr.value

\* bookmarks(): None when a synthetic name is not a bookmark name
bookmarksOk(rr) ==
    rr.kind = "IncludedWithValue" =>
        \A n \in DOMAIN rr.value : ValidBookmarkName(n)

\* variant: a bookmark the server tracks keeps the server's changeset, and
\* only the names not yet present are injected
bookmarks_server_target(rr) ==
    LET listed == {b \in DOMAIN bookmarkTable : KeepBookmark(rr, b)}
        injected == IF rr.kind = "IncludedWithValue"
                    THEN {WithName(n) : n \in DOMAIN rr.value} \ listed
                    ELSE {}
    IN  [b \in listed \cup injected |->
            IF b \in injected
            THEN rr.value[CHOOSE n \in DOMAIN rr.value : WithName(n) = b]
            ELSE bookmarkTable[b]]

bookmarks(rr) ==
    LET listed == {b \in DOMAIN bookmarkTable : KeepBookmark(rr, b)}
        injected == IF rr.kind = "IncludedWithValue"
                    THEN {WithName(n) : n \in DOMAIN rr.value}
                    ELSE {}
    IN  [b \in listed \cup injected |->
            IF b \in injected
            THEN rr.value[CHOOSE n \in DOMAIN rr.value : WithName(n) = b]
            ELSE IF rr.kind = "IncludedWithValue"
                 THEN rr.value[BookmarkName(b)]
                 ELSE bookmarkTable[b]]

\* bonsai_git_mappings_by_bonsai: the rows of the given changesets
bonsai_git_mappings_by_bonsai(cs_ids) ==
    [c \in cs_ids \cap DOMAIN gitMap |-> gitMap[c]]

\* the tag_name -> tag_hash map refs_to_include builds from get_all_entries
bonsai_tag_map ==
    [n \in {e.tag_name : e \in tagMap} |->
        (CHOOSE e \in tagMap : e.tag_name = n).tag_hash]

\* variant: a tag bookmark resolved through the tag mapping under every
\* TagInclusion, with no fallback to the changeset's commit
RefOfBookmarkTagOnly(b, cs, git_map, tag_inclusion) ==
    LET ref_name == REFS_PREFIX \o BookmarkToString(b)
    IN  IF IsTag(b)
        THEN [ok |-> TRUE, name |-> ref_name, target |-> Plain(<<"t", 1>>)]
        ELSE IF cs \in DOMAIN git_map
        THEN [ok |-> TRUE, name |-> ref_name, target |-> Plain(git_map[cs])]
        ELSE [ok |-> FALSE, name |-> ref_name, target |-> Plain(<<"none", 0>>)]

\* variant: Peeled answered like AsIs, with the tag object
RefOfBookmarkPeeledAsTag(b, cs, git_map, tag_inclusion) ==
    LET ref_name == REFS_PREFIX \o BookmarkToString(b)
        fromCommit ==
            IF cs \in DOMAIN git_map
            THEN [ok |-> TRUE, name |-> ref_name, target |-> Plain(git_map[cs])]
            ELSE [ok |-> FALSE, name |-> ref_name, target |-> Plain(<<"none", 0>>)]
    IN  IF IsTag(b) /\ tag_inclusion \in {"AsIs", "Peeled"}
           /\ BookmarkToString(b) \in DOMAIN bonsai_tag_map
        THEN [ok |-> TRUE, name |-> ref_name,
              target |-> Plain(bonsai_tag_map[BookmarkToString(b)])]
        ELSE IF IsTag(b) /\ tag_inclusion = "WithTarget"
                /\ BookmarkToString(b) \in DOMAIN bonsai_tag_map
                /\ cs \in DOMAIN git_map
        THEN [ok |-> TRUE, name |-> ref_name,
              target |-> WithMetadata(bonsai_tag_map[BookmarkToString(b)],
                                      <<"peeled:">> \o ToHex(git_map[cs]))]
        ELSE fromCommit

\* the closure of refs_to_include: one bookmark to (ref name, target)
RefOfBookmark(b, cs, git_map, tag_inclusion) ==
    LET ref_name == REFS_PREFIX \o BookmarkToString(b)
        fromCommit ==
            IF cs \in DOMAIN git_map
            THEN [ok |-> TRUE, name |-> ref_name, target |-> Plain(git_map[cs])]
            ELSE [ok |-> FALSE, name |-> ref_name, target |-> Plain(<<"none", 0>>)]
    IN  IF IsTag(b) /\ tag_inclusion = "AsIs"
           /\ BookmarkToString(b) \in DOMAIN bonsai_tag_map
        THEN [ok |-> TRUE, name |-> ref_name,
              target |-> Plain(bonsai_tag_map[BookmarkToString(b)])]
        ELSE IF IsTag(b) /\ tag_inclusion = "Peeled"
        THEN fromCommit
        ELSE IF IsTag(b) /\ tag_inclusion = "WithTarget"
                /\ BookmarkToString(b) \in DOMAIN bonsai_tag_map
        THEN IF cs \in DOMAIN git_map
             THEN [ok |-> TRUE, name |-> ref_name,
                   target |-> WithMetadata(bonsai_tag_map[BookmarkToString(b)],
                                           <<"peeled:">> \o ToHex(git_map[cs]))]
             ELSE [ok |-> FALSE, name |-> ref_name, target |-> Plain(<<"none", 0>>)]
        ELSE fromCommit

\* variant: a bookmark whose changeset has no git mapping is left out
refs_to_include_lenient(bm, tag_inclusion) ==
    LET git_map == bonsai_git_mappings_by_bonsai({bm[b] : b \in DOMAIN bm})
        one(b) == RefOfBookmark(b, bm[b], git_map, tag_inclusion)
        kept == {b \in DOMAIN bm : one(b).ok}
        names == {one(b).name : b \in kept}
    IN  [ok |-> TRUE,
         refs |-> [n \in names |-> one(CHOOSE b \in kept : one(b).name = n).target]]

refs_to_include(bm, tag_inclusion) ==
    LET git_map == bonsai_git_mappings_by_bonsai({bm[b] : b \in DOMAIN bm})
        one(b) == RefOfBookmark(b, bm[b], git_map, tag_inclusion)
        names == {one(b).name : b \in DOMAIN bm}
    IN  IF \A b \in DOMAIN bm : one(b).ok
        THEN [ok |-> TRUE,
              refs |-> [n \in names |->
                          one(CHOOSE b \in DOMAIN bm : one(b).name = n).target]]
        ELSE [ok |-> FALSE, refs |-> NoMap]

\* variant: the symref target never carries its metadata
symref_target_plain(target, commit_id, symref_format) == Plain(commit_id)

symref_target(target, commit_id, symref_format) ==
    IF symref_format = "NameWithTarget"
    THEN WithMetadata(commit_id, <<"symref-target:">> \o target)
    ELSE Plain(commit_id)

\* variant: a symref whose target ref is not in the map is left out
include_symrefs_skip_missing(requested_symrefs, refs) ==
    LET heads == {e \in symrefTable : e.symref_name = HEAD_REF}
        entries == IF requested_symrefs.kind = "IncludeHead" THEN heads
                   ELSE IF requested_symrefs.kind = "IncludeAll" THEN symrefTable
                   ELSE {}
        present == {e \in entries : e.ref_name_with_type \in DOMAIN refs}
        mapping == [n \in {e.symref_name : e \in present} |->
                      LET e == CHOOSE x \in present : x.symref_name = n
                      IN  symref_target(e.ref_name_with_type,
                                        refs[e.ref_name_with_type].id,
                                        requested_symrefs.format)]
    IN  [ok |-> TRUE, refs |-> Extend(refs, mapping)]

\* variant: IncludeHead without a HEAD entry returns the refs as they are
include_symrefs_head_optional(requested_symrefs, refs) ==
    LET heads == {e \in symrefTable : e.symref_name = HEAD_REF}
        entries == IF requested_symrefs.kind = "IncludeHead" THEN heads
                   ELSE IF requested_symrefs.kind = "IncludeAll" THEN symrefTable
                   ELSE {}
        mapping == [n \in {e.symref_name : e \in entries} |->
                      LET e == CHOOSE x \in entries : x.symref_name = n
                      IN  symref_target(e.ref_name_with_type,
                                        refs[e.ref_name_with_type].id,
                                        requested_symrefs.format)]
    IN  IF \E e \in entries : e.ref_name_with_type \notin DOMAIN refs
        THEN [ok |-> FALSE, refs |-> NoMap]
        ELSE [ok |-> TRUE, refs |-> Extend(refs, mapping)]

include_symrefs(requested_symrefs, refs) ==
    LET heads == {e \in symrefTable : e.symref_name = HEAD_REF}
        entries == IF requested_symrefs.kind = "IncludeHead" THEN heads
                   ELSE IF requested_symrefs.kind = "IncludeAll" THEN symrefTable
                   ELSE {}
        mapping == [n \in {e.symref_name : e \in entries} |->
                      LET e == CHOOSE x \in entries : x.symref_name = n
                      IN  symref_target(e.ref_name_with_type,
                                        refs[e.ref_name_with_type].id,
                                        requested_symrefs.format)]
    IN  IF requested_symrefs.kind = "IncludeHead" /\ heads = {}
        THEN [ok |-> FALSE, refs |-> NoMap]
        ELSE IF \E e \in entries : e.ref_name_with_type \notin DOMAIN refs
        THEN [ok |-> FALSE, refs |-> NoMap]
        ELSE [ok |-> TRUE, refs |-> Extend(refs, mapping)]

\* ------------------------------------------------------------ commit graph

RECURSIVE AncestorsOfOne(_)
\* a changeset with all its ancestors (parents have smaller numbers)
AncestorsOfOne(c) ==
    {c} \cup UNION {AncestorsOfOne(p) : p \in parents[c]}

Ancestors(S) == UNION {AncestorsOfOne(c) : c \in S}

ProperAncestors(c) == AncestorsOfOne(c) \ {c}

AncestorsDifference(heads, common) == Ancestors(heads) \ Ancestors(common)

Perms(S) ==
    {f \in [1 .. Cardinality(S) -> S] : \A i, j \in DOMAIN f : f[i] = f[j] => i = j}

\* ancestors_difference_stream: the difference, every changeset before its
\* ancestors, in any such order
AncestorsDifferenceStream(heads, common) ==
    {s \in Perms(AncestorsDifference(heads, common)) :
        \A i, j \in DOMAIN s : i < j => s[i] \notin ProperAncestors(s[j])}

\* variant: the target commits left in the order of the ancestors stream
NoReverse(s) == s

Reverse(s) == [i \in 1 .. Len(s) |-> s[Len(s) + 1 - i]]

Range(s) == {s[i] : i \in DOMAIN s}

\* ----------------------------------------------- Git sha -> bonsai (fetch)

\* variant: the tag bookmarks not filtered by the names of the given tags
tagged_commits_unfiltered(git_shas) ==
    IF git_shas = {} THEN {}
    ELSE {bookmarkTable[b] :
            b \in {k \in DOMAIN bookmarkTable :
                     StartsWith(BookmarkName(k), TAGS_PREFIX)}}

tagged_commits(git_shas) ==
    IF git_shas = {} THEN {}
    ELSE LET tag_names == {e.tag_name : e \in {x \in tagMap : x.tag_hash \in git_shas}}
         IN  {bookmarkTable[b] :
                b \in {k \in DOMAIN bookmarkTable :
                         /\ StartsWith(BookmarkName(k), TAGS_PREFIX)
                         /\ BookmarkName(k) \in tag_names}}

\* variant: the rows of the bonsai-git mapping left out of the result
git_shas_to_bonsais_tags_only(oids) ==
    LET entries == {c \in DOMAIN gitMap : gitMap[c] \in oids}
        tag_shas == {sha \in oids : ~\E c \in entries : gitMap[c] = sha}
    IN  tagged_commits(tag_shas)

git_shas_to_bonsais(oids) ==
    LET entries == {c \in DOMAIN gitMap : gitMap[c] \in oids}
        tag_shas == {sha \in oids : ~\E c \in entries : gitMap[c] = sha}
    IN  tagged_commits(tag_shas) \cup entries

\* ---------------------------------------------------------- object counting

ManifestOids(c) == {manifest[c][i].oid : i \in DOMAIN manifest[c]}

\* the size of the union of the per-commit sets of full.oid
trees_and_blobs_count(target_commits) ==
    Cardinality(UNION {ManifestOids(c) : c \in Range(target_commits)})

\* ------------------------------------------------------------ Delta Chooser

\* (instructions_compressed_size as f64) < (full.size as f64) * threshold,
\* the threshold a ratio num/den
\* variant: a delta whose compressed size equals size * threshold is accepted
delta_at_or_below_threshold(delta, entry, threshold) ==
    delta.csize * threshold.den <= entry.size * threshold.num

delta_below_threshold(delta, entry, threshold) ==
    delta.csize * threshold.den < entry.size * threshold.num

RECURSIVE InsertByStrictSize(_, _)
\* variant: a delta is placed behind the deltas of its size (an unstable sort)
InsertByStrictSize(d, s) ==
    IF s = <<>> THEN <<d>>
    ELSE IF d.csize < Head(s).csize THEN <<d>> \o s
    ELSE <<Head(s)>> \o InsertByStrictSize(d, Tail(s))

RECURSIVE InsertBySize(_, _)
InsertBySize(d, s) ==
    IF s = <<>> THEN <<d>>
    ELSE IF d.csize <= Head(s).csize THEN <<d>> \o s
    ELSE <<Head(s)>> \o InsertBySize(d, Tail(s))

RECURSIVE SortBySize(_)
\* Vec::sort_by on instructions_compressed_size: ascending and stable
SortBySize(s) ==
    IF s = <<>> THEN <<>> ELSE InsertBySize(Head(s), SortBySize(Tail(s)))

\* variant: the smallest delta is used whatever the request says
delta_base_always(entry, delta_inclusion) ==
    LET sorted == SortBySize(entry.deltas)
    IN  IF sorted /= <<>> THEN <<Head(sorted)>> ELSE <<>>

\* Option<ObjectDelta> as a sequence of length 0 or 1
delta_base(entry, delta_inclusion) ==
    IF delta_inclusion.kind = "Include"
    THEN LET sorted == SortBySize(entry.deltas)
         IN  IF sorted /= <<>>
                /\ delta_below_threshold(Head(sorted), entry, delta_inclusion.threshold)
             THEN <<Head(sorted)>>
             ELSE <<>>
    ELSE <<>>

\* ------------------------------------------------------- Base Item Provider

NoOid == <<"none", 0>>

Item(kind, oid, base_oid, csize, cs, idx) ==
    [kind |-> kind, oid |-> oid, base_oid |-> base_oid, csize |-> csize,
     cs |-> cs, idx |-> idx]

\* the raw bytes of a git object, read from the repository by its id
object_bytes(oid) == <<"raw", oid>>

\* the base item that upload_packfile_base_item builds from raw bytes
PackfileBaseItem(bytes) == <<"packed", bytes>>

\* a store holding the base items of the given objects
Stored(oids) == [o \in oids |-> PackfileBaseItem(object_bytes(o))]

\* variant: the item is stored under every inclusion
base_packfile_item_storing(oid, packfile_item_inclusion, st, cs, idx) ==
    [item |-> Item(IF packfile_item_inclusion = "Generate" THEN "base"
                   ELSE "encoded_base", oid, NoOid, 0, cs, idx),
     store |-> Extend(st, oid :> PackfileBaseItem(object_bytes(oid)))]

\* the item (or error) and the store after the call; cs and idx record the
\* changeset and the position the item was computed for
base_packfile_item(oid, packfile_item_inclusion, st, cs, idx) ==
    CASE packfile_item_inclusion = "Generate" ->
            [item |-> Item("base", oid, NoOid, 0, cs, idx), store |-> st]
      [] packfile_item_inclusion = "FetchOnly" ->
            IF oid \in DOMAIN st
            THEN [item |-> Item("encoded_base", oid, NoOid, 0, cs, idx), store |-> st]
            ELSE [item |-> Item("error", oid, NoOid, 0, cs, idx), store |-> st]
      [] packfile_item_inclusion = "FetchAndStore" ->
            [item |-> Item("encoded_base", oid, NoOid, 0, cs, idx),
             store |-> IF oid \in DOMAIN st
                       THEN st
                       ELSE Extend(st, oid :> PackfileBaseItem(object_bytes(oid)))]

packfile_entry(delta_inclusion, packfile_item_inclusion, cs, idx, entry, st) ==
    LET delta == delta_base(entry, delta_inclusion) IN
    IF delta /= <<>>
    THEN [item |-> Item("delta", entry.oid, delta[1].base, delta[1].csize, cs, idx),
          store |-> st]
    ELSE base_packfile_item(entry.oid, packfile_item_inclusion, st, cs, idx)

\* One base_packfile_item computation: the object it was asked for, its
\* inclusion, the await point it stands at, and what it returned.  hit,
\* before and uploaded record its lookup result, the computations that had
\* returned when it looked the object up, and the uploads it performed.
NoResult == [kind |-> "none", oid |-> NoOid, bytes |-> <<>>]

Call(oid, packfile_item_inclusion) ==
    [oid |-> oid, inclusion |-> packfile_item_inclusion, pc |-> "start",
     hit |-> FALSE, before |-> {}, uploaded |-> 0, result |-> NoResult]

Returned(c, kind, bytes) ==
    [c EXCEPT !.pc = "done",
              !.result = [kind |-> kind, oid |-> c.oid, bytes |-> bytes]]

\* variant: FetchOnly generates the item when nothing is stored
BaseItemFetchOrGenerate(i) ==
    /\ calls[i].pc = "start"
    /\ LET stored == calls[i].oid \in DOMAIN store
           c == [calls[i] EXCEPT
                   !.hit = stored /\ calls[i].inclusion /= "Generate",
                   !.before = {j \in DOMAIN calls : calls[j].pc = "done"}]
       IN  calls' = [calls EXCEPT ![i] =
              IF c.inclusion = "Generate" \/ (c.inclusion = "FetchOnly" /\ ~stored)
              THEN Returned(c, "base", object_bytes(c.oid))
              ELSE IF stored
                   THEN Returned(c, "encoded_base", store[c.oid])
                   ELSE [c EXCEPT !.pc = "missed"]]
    /\ UNCHANGED <<repoVars, store, req, lsResp, resp, streamVars>>

\* the first await of each arm: Generate reads the raw bytes, FetchOnly and
\* FetchAndStore look the base item up in the store
BaseItemFetch(i) ==
    /\ calls[i].pc = "start"
    /\ LET stored == calls[i].oid \in DOMAIN store
           c == [calls[i] EXCEPT
                   !.hit = stored /\ calls[i].inclusion /= "Generate",
                   !.before = {j \in DOMAIN calls : calls[j].pc = "done"}]
       IN  calls' = [calls EXCEPT ![i] =
              CASE c.inclusion = "Generate" ->
                      Returned(c, "base", object_bytes(c.oid))
                [] c.inclusion = "FetchOnly" ->
                      IF stored
                      THEN Returned(c, "encoded_base", store[c.oid])
                      ELSE Returned(c, "error", <<>>)
                [] c.inclusion = "FetchAndStore" ->
                      IF stored
                      THEN Returned(c, "encoded_base", store[c.oid])
                      ELSE [c EXCEPT !.pc = "missed"]]
    /\ UNCHANGED <<repoVars, store, req, lsResp, resp, streamVars>>

\* variant: the generated item returned without being stored
BaseItemUploadSkipped(i) ==
    /\ calls[i].pc = "missed"
    /\ calls' = [calls EXCEPT ![i] =
                   Returned(calls[i], "encoded_base",
                            PackfileBaseItem(object_bytes(calls[i].oid)))]
    /\ UNCHANGED <<repoVars, store, req, lsResp, resp, streamVars>>

\* variant: the stored bytes depend on the computation that uploads them
BaseItemUploadPerCall(i) ==
    /\ calls[i].pc = "missed"
    /\ LET item == PackfileBaseItem(<<object_bytes(calls[i].oid), i>>)
       IN  /\ store' = Extend(store, calls[i].oid :> item)
           /\ calls' = [calls EXCEPT ![i] =
                          Returned([calls[i] EXCEPT !.uploaded = @ + 1],
                                   "encoded_base", item)]
    /\ UNCHANGED <<repoVars, req, lsResp, resp, streamVars>>

\* the miss branch of FetchAndStore after its lookup: the raw bytes are read,
\* the base item built from them is uploaded under the object id and returned
BaseItemUpload(i) ==
    /\ calls[i].pc = "missed"
    /\ LET item == PackfileBaseItem(object_bytes(calls[i].oid))
       IN  /\ store' = Extend(store, calls[i].oid :> item)
           /\ calls' = [calls EXCEPT ![i] =
                          Returned([calls[i] EXCEPT !.uploaded = @ + 1],
                                   "encoded_base", item)]
    /\ UNCHANGED <<repoVars, req, lsResp, resp, streamVars>>

\* ---------------------------------------------------------------- handlers

ExcludeDeltas == [kind |-> "Exclude", threshold |-> [num |-> 0, den |-> 1]]
IncludeDeltas(t) == [kind |-> "Include", threshold |-> t]

NoResp == [status |-> "none", object_count |-> 0, refs |-> NoMap,
           tags |-> <<>>, commits |-> <<>>,
           delta_inclusion |-> ExcludeDeltas,
           packfile_item_inclusion |-> "Generate"]

ErrResp == [NoResp EXCEPT !.status = "err"]

\* finished counts the completions of the buffer: the rank of an output is
\* the place of its future in the order of completion
NoBuf == [started |-> 0, done |-> NoMap, yielded |-> 0, finished |-> 0]
NoOuter == [started |-> 0, ready |-> {}, taken |-> 0, cur |-> 0]

\* the annotated tags tag_packfile_stream collects from the bookmark keys
AnnotatedTags(bm) ==
    {e \in tagMap : \E b \in DOMAIN bm : IsTag(b) /\ e.tag_name = BookmarkName(b)}

\* DeltaInclusion::standard(): include, with the threshold of the request
StandardDeltaInclusion(r) == IncludeDeltas(r.standard_threshold)

\* variant: the ls-refs response built without the symref step
ls_refs_without_symrefs ==
    /\ lsResp.status = "none"
    /\ LET failed == [status |-> "err", refs |-> NoMap] IN
       IF ~bookmarksOk(req.requested_refs)
       THEN lsResp' = failed
       ELSE LET bm == bookmarks(req.requested_refs)
                included == refs_to_include(bm, req.tag_inclusion)
            IN  IF ~included.ok
                THEN lsResp' = failed
                ELSE lsResp' = [status |-> "ok", refs |-> included.refs]
    /\ UNCHANGED <<repoVars, calls, store, req, resp, streamVars>>

ls_refs_response ==
    /\ lsResp.status = "none"
    /\ LET failed == [status |-> "err", refs |-> NoMap] IN
       IF ~bookmarksOk(req.requested_refs)
       THEN lsResp' = failed
       ELSE LET bm == bookmarks(req.requested_refs)
                included == refs_to_include(bm, req.tag_inclusion)
            IN  IF ~included.ok
                THEN lsResp' = failed
                ELSE LET all == include_symrefs(req.requested_symrefs, included.refs)
                     IN  IF ~all.ok
                         THEN lsResp' = failed
                         ELSE lsResp' = [status |-> "ok", refs |-> all.refs]
    /\ UNCHANGED <<repoVars, calls, store, req, resp, streamVars>>

\* variant: the have_heads of the request left out of the difference
generate_pack_item_stream_ignoring_haves ==
    /\ req.handler = "pack"
    /\ resp.status = "none"
    /\ IF ~bookmarksOk(req.requested_refs)
       THEN resp' = ErrResp /\ UNCHANGED seg
       ELSE LET bm == bookmarks(req.requested_refs) IN
            \E order \in AncestorsDifferenceStream({bm[b] : b \in DOMAIN bm},
                                                   {}) :
            \E tag_order \in Perms(AnnotatedTags(bm)) :
                LET target_commits == Reverse(order)
                    commits_count == Len(target_commits)
                    count == trees_and_blobs_count(target_commits)
                    included == refs_to_include(bm, req.tag_inclusion)
                    all == include_symrefs(req.requested_symrefs, included.refs)
                    tags_count == Len(tag_order)
                IN  IF ~included.ok \/ ~all.ok
                    THEN resp' = ErrResp /\ UNCHANGED seg
                    ELSE /\ resp' =
                              [status |-> "ok",
                               object_count |-> commits_count + count + tags_count,
                               refs |-> all.refs,
                               tags |-> tag_order,
                               commits |-> target_commits,
                               delta_inclusion |-> req.delta_inclusion,
                               packfile_item_inclusion |->
                                  req.packfile_item_inclusion]
                         /\ seg' = "tag"
    /\ UNCHANGED <<repoVars, calls, store, req, lsResp, outer, buf, out>>

generate_pack_item_stream ==
    /\ req.handler = "pack"
    /\ resp.status = "none"
    /\ IF ~bookmarksOk(req.requested_refs)
       THEN resp' = ErrResp /\ UNCHANGED seg
       ELSE LET bm == bookmarks(req.requested_refs) IN
            \E order \in AncestorsDifferenceStream({bm[b] : b \in DOMAIN bm},
                                                   req.have_heads) :
            \E tag_order \in Perms(AnnotatedTags(bm)) :
                LET target_commits == Reverse(order)
                    commits_count == Len(target_commits)
                    count == trees_and_blobs_count(target_commits)
                    included == refs_to_include(bm, req.tag_inclusion)
                    all == include_symrefs(req.requested_symrefs, included.refs)
                    tags_count == Len(tag_order)
                IN  IF ~included.ok \/ ~all.ok
                    THEN resp' = ErrResp /\ UNCHANGED seg
                    ELSE /\ resp' =
                              [status |-> "ok",
                               object_count |-> commits_count + count + tags_count,
                               refs |-> all.refs,
                               tags |-> tag_order,
                               commits |-> target_commits,
                               delta_inclusion |-> req.delta_inclusion,
                               packfile_item_inclusion |->
                                  req.packfile_item_inclusion]
                         /\ seg' = "tag"
    /\ UNCHANGED <<repoVars, calls, store, req, lsResp, outer, buf, out>>

\* variant: only the tags whose object is among the requested heads are sent
fetch_response_requested_tags ==
    /\ req.handler = "fetch"
    /\ resp.status = "none"
    /\ LET bases == git_shas_to_bonsais(req.bases)
           heads == git_shas_to_bonsais(req.heads)
       IN  \E order \in AncestorsDifferenceStream(heads, bases) :
           \E tag_order \in Perms({e \in tagMap : e.tag_hash \in req.heads}) :
               LET target_commits == Reverse(order)
                   commits_count == Len(order)
                   tags_count == Len(tag_order)
               IN  resp' = [status |-> "ok",
                            object_count |->
                               commits_count
                               + trees_and_blobs_count(target_commits)
                               + tags_count,
                            refs |-> NoMap,
                            tags |-> tag_order,
                            commits |-> target_commits,
                            delta_inclusion |-> StandardDeltaInclusion(req),
                            packfile_item_inclusion |-> "FetchAndStore"]
    /\ seg' = "tag"
    /\ UNCHANGED <<repoVars, calls, store, req, lsResp, outer, buf, out>>

fetch_response ==
    /\ req.handler = "fetch"
    /\ resp.status = "none"
    /\ LET bases == git_shas_to_bonsais(req.bases)
           heads == git_shas_to_bonsais(req.heads)
       IN  \E order \in AncestorsDifferenceStream(heads, bases) :
           \E tag_order \in Perms(tagMap) :
               LET target_commits == Reverse(order)
                   commits_count == Len(order)
                   tags_count == Len(tag_order)
               IN  resp' = [status |-> "ok",
                            object_count |->
                               commits_count
                               + trees_and_blobs_count(target_commits)
                               + tags_count,
                            refs |-> NoMap,
                            tags |-> tag_order,
                            commits |-> target_commits,
                            delta_inclusion |-> StandardDeltaInclusion(req),
                            packfile_item_inclusion |-> "FetchAndStore"]
    /\ seg' = "tag"
    /\ UNCHANGED <<repoVars, calls, store, req, lsResp, outer, buf, out>>

\* ------------------------------------------------------ the composed stream

Min(a, b) == IF a < b THEN a ELSE b

\* a Buffered stream is being polled: the tag stream, the commit stream, or
\* the entry stream of the changeset TryFlatten is draining
BufActive == seg \in {"tag", "commit"} \/ (seg = "tree" /\ outer.cur /= 0)

CurrentChangeset == resp.commits[outer.cur]

SourceLen ==
    CASE seg = "tag" -> Len(resp.tags)
      [] seg = "commit" -> Len(resp.commits)
      [] seg = "tree" -> Len(manifest[CurrentChangeset])

Window ==
    CASE seg = "tag" -> TagWindow
      [] seg = "commit" -> CommitWindow
      [] seg = "tree" -> EntryWindow

\* the future of element i of the stream being polled: its item (or error)
\* and the store after it
FutureResult(i) ==
    CASE seg = "tag" ->
            base_packfile_item(resp.tags[i].tag_hash,
                               resp.packfile_item_inclusion, store, 0, i)
      [] seg = "commit" ->
            LET cs == resp.commits[i] IN
            IF cs \in DOMAIN gitMap
            THEN base_packfile_item(gitMap[cs], resp.packfile_item_inclusion,
                                    store, cs, i)
            ELSE [item |-> Item("error", NoOid, NoOid, 0, cs, i), store |-> store]
      [] seg = "tree" ->
            packfile_entry(resp.delta_inclusion, resp.packfile_item_inclusion,
                           CurrentChangeset, i, manifest[CurrentChangeset][i],
                           store)

\* Buffered::poll_next, the fill loop: futures are pulled from the source,
\* in order, while the queue holds fewer than the window
PollFill ==
    /\ BufActive
    /\ buf.started < SourceLen
    /\ buf.started - buf.yielded < Window
    /\ buf' = [buf EXCEPT !.started = Min(SourceLen, buf.yielded + Window)]
    /\ UNCHANGED <<repoVars, calls, store, req, lsResp, resp, seg, outer, out>>

\* one in-flight future runs to completion, in any order
CompleteFuture ==
    /\ BufActive
    /\ \E i \in (buf.yielded + 1) .. buf.started :
          /\ i \notin DOMAIN buf.done
          /\ LET r == FutureResult(i)
             IN  /\ buf' = [buf EXCEPT
                              !.done = Extend(buf.done,
                                              i :> [item |-> r.item,
                                                    rank |-> buf.finished + 1]),
                              !.finished = buf.finished + 1]
                 /\ store' = r.store
    /\ UNCHANGED <<repoVars, calls, req, lsResp, resp, seg, outer, out>>

\* variant: the output that finished first is handed out (buffer_unordered)
FirstFinished ==
    IF DOMAIN buf.done = {} THEN buf.yielded + 1
    ELSE CHOOSE i \in DOMAIN buf.done :
            \A k \in DOMAIN buf.done : buf.done[i].rank <= buf.done[k].rank

\* FuturesOrdered::poll_next: only the output next in order is handed out
NextOutput == buf.yielded + 1

YieldItem ==
    /\ BufActive
    /\ NextOutput \in DOMAIN buf.done
    /\ out' = Append(out, [seg |-> seg, item |-> buf.done[NextOutput].item,
                            rank |-> buf.done[NextOutput].rank])
    /\ buf' = [buf EXCEPT
                 !.yielded = NextOutput,
                 !.done = [k \in (DOMAIN buf.done) \ {NextOutput} |-> buf.done[k]]]
    /\ UNCHANGED <<repoVars, calls, store, req, lsResp, resp, seg, outer>>

\* variant: blob_and_tree_stream chained before commit_stream
TreesBeforeCommits(s) ==
    CASE s = "tag" -> "tree"
      [] s = "tree" -> "commit"
      [] s = "commit" -> "end"

\* tag_stream.chain(commit_stream).chain(blob_and_tree_stream)
SegmentAfter(s) ==
    CASE s = "tag" -> "commit"
      [] s = "commit" -> "tree"
      [] s = "tree" -> "end"

\* Chain: the next stream is polled once the one before it is exhausted
ChainNext ==
    /\ seg \in {"tag", "commit"}
    /\ buf.yielded = SourceLen
    /\ seg' = SegmentAfter(seg)
    /\ buf' = NoBuf
    /\ outer' = NoOuter
    /\ UNCHANGED <<repoVars, calls, store, req, lsResp, resp, out>>

\* the outer Buffered of blob_and_tree_packfile_stream pulls the per-commit
\* constructions (derive and load the manifest) into its window
OuterFill ==
    /\ seg = "tree"
    /\ outer.cur = 0
    /\ outer.started < Len(resp.commits)
    /\ outer.started - outer.taken < TreeWindow
    /\ outer' = [outer EXCEPT
                   !.started = Min(Len(resp.commits), outer.taken + TreeWindow)]
    /\ UNCHANGED <<repoVars, calls, store, req, lsResp, resp, seg, buf, out>>

OuterComplete ==
    /\ seg = "tree"
    /\ \E j \in (outer.taken + 1) .. outer.started :
          /\ j \notin outer.ready
          /\ outer' = [outer EXCEPT !.ready = @ \cup {j}]
    /\ UNCHANGED <<repoVars, calls, store, req, lsResp, resp, seg, buf, out>>

\* variant: the latest per-commit stream that is ready becomes the one drained
LastReadyStream ==
    IF outer.ready = {} THEN outer.taken + 1
    ELSE CHOOSE j \in outer.ready : \A k \in outer.ready : k <= j

\* TryFlatten: the next per-commit stream, in order, becomes the one drained
NextStream == outer.taken + 1

FlattenNext ==
    /\ seg = "tree"
    /\ outer.cur = 0
    /\ NextStream \in outer.ready
    /\ outer' = [outer EXCEPT !.cur = NextStream,
                              !.taken = outer.taken + 1,
                              !.ready = @ \ {NextStream}]
    /\ buf' = NoBuf
    /\ UNCHANGED <<repoVars, calls, store, req, lsResp, resp, seg, out>>

FlattenInnerEnd ==
    /\ seg = "tree"
    /\ outer.cur /= 0
    /\ buf.yielded = SourceLen
    /\ outer' = [outer EXCEPT !.cur = 0]
    /\ buf' = NoBuf
    /\ UNCHANGED <<repoVars, calls, store, req, lsResp, resp, seg, out>>

StreamEnd ==
    /\ seg = "tree"
    /\ outer.cur = 0
    /\ outer.taken = Len(resp.commits)
    /\ seg' = SegmentAfter(seg)
    /\ UNCHANGED <<repoVars, calls, store, req, lsResp, resp, outer, buf, out>>

Drain ==
    \/ PollFill
    \/ CompleteFuture
    \/ YieldItem
    \/ ChainNext
    \/ OuterFill
    \/ OuterComplete
    \/ FlattenNext
    \/ FlattenInnerEnd
    \/ StreamEnd

Next == generate_pack_item_stream \/ fetch_response \/ Drain

NextRefs == ls_refs_response \/ generate_pack_item_stream

\* ------------------------------------------------- requests and snapshots

Half == [num |-> 1, den |-> 2]
ThreeQuarters == [num |-> 3, den |-> 4]

FilterRefs(k, S) == [kind |-> k, names |-> S, value |-> NoMap]
AllRefs == [kind |-> "Excluded", names |-> {}, value |-> NoMap]
NoSymrefs == [kind |-> "ExcludeAll", format |-> "NameOnly"]

PackRequest(rr, rs, ti, haves, di, pol) ==
    [handler |-> "pack", requested_refs |-> rr, requested_symrefs |-> rs,
     tag_inclusion |-> ti, have_heads |-> haves, delta_inclusion |-> di,
     packfile_item_inclusion |-> pol, heads |-> {}, bases |-> {},
     standard_threshold |-> ThreeQuarters]

FetchRequest(heads, bases, t) ==
    [handler |-> "fetch", requested_refs |-> AllRefs,
     requested_symrefs |-> NoSymrefs, tag_inclusion |-> "AsIs",
     have_heads |-> {}, delta_inclusion |-> ExcludeDeltas,
     packfile_item_inclusion |-> "FetchAndStore", heads |-> heads,
     bases |-> bases, standard_threshold |-> t]

Main == <<"heads/", "main">>
TagV1 == <<"tags/", "v1">>
TagV1Entry == [tag_name |-> TagV1, tag_hash |-> <<"t", 1>>]

\* every graph on Commits whose parents have smaller numbers
Graphs ==
    {p \in [Commits -> SUBSET Commits] : \A c \in Commits : p[c] \subseteq 1 .. (c - 1)}

Chain == [c \in Commits |-> IF c = 1 THEN {} ELSE {c - 1}]

HaveSets == {h \in SUBSET Commits : Cardinality(h) <= MaxHaves}

RECURSIVE SeqOfSet(_)
\* the elements of a set of numbers, ascending
SeqOfSet(S) ==
    IF S = {} THEN <<>>
    ELSE LET m == CHOOSE x \in S : \A y \in S : x <= y
         IN  <<m>> \o SeqOfSet(S \ {m})

FullMapping == [c \in Commits |-> GitCommitOid(c)]

\* nothing asked yet, nothing streamed
Idle ==
    /\ lsResp = [status |-> "none", refs |-> NoMap]
    /\ resp = NoResp
    /\ seg = "idle"
    /\ outer = NoOuter
    /\ buf = NoBuf
    /\ out = <<>>
    /\ calls = <<>>

\* Snapshots of the graph slice: any graph; every changeset rewrites one
\* file, its manifest entry carrying one delta against each parent's version
OneFileManifest(p) ==
    [c \in Commits |->
        << [oid |-> <<"o", c>>, size |-> 4,
            deltas |-> LET ps == SeqOfSet(p[c])
                       IN  [i \in 1 .. Len(ps) |->
                              [base |-> <<"o", ps[i]>>, origin |-> ps[i],
                               csize |-> 2]]] >>]

Init ==
    /\ parents \in Graphs
    /\ manifest = OneFileManifest(parents)
    /\ \E m \in Commits, tagged \in BOOLEAN :
          /\ bookmarkTable = IF tagged THEN (Main :> m) @@ (TagV1 :> 1)
                             ELSE (Main :> m)
          /\ tagMap = IF tagged THEN {TagV1Entry} ELSE {}
          /\ \E h \in HaveSets :
                req \in {PackRequest(AllRefs, NoSymrefs, "AsIs", h, di, "Generate") :
                            di \in {ExcludeDeltas, IncludeDeltas(ThreeQuarters)}}
                        \cup {FetchRequest({GitCommitOid(m)}
                                           \cup (IF tagged THEN {<<"t", 1>>} ELSE {}),
                                           {GitCommitOid(c) : c \in h},
                                           ThreeQuarters)}
    /\ gitMap = FullMapping
    /\ symrefTable = {}
    /\ store = Stored({})
    /\ Idle

Spec == Init /\ [][Next]_vars

\* Snapshots of the manifest slice: the chain 1 <- 2 <- ..., the branch at
\* changeset 2, and any manifests of changesets 1 and 2 over two object ids;
\* an entry of changeset 2 may carry a delta against the first object, when
\* changeset 1 has it
\* The graph slice without tags and without deltas: any graph, any have set
InitGraph ==
    /\ Init
    /\ tagMap = {}
    /\ req.handler = "pack" => req.delta_inclusion = ExcludeDeltas

SpecGraph == InitGraph /\ [][Next]_vars

BlobOids == {<<"o", 1>>, <<"o", 2>>}

SeqsUpTo(S, n) == UNION {[1 .. k -> S] : k \in 0 .. n}

EntriesOver(bases) ==
    {[oid |-> o, size |-> 4, deltas |-> d] :
        o \in BlobOids,
        d \in {<<>>} \cup {<<[base |-> b, origin |-> 1, csize |-> 2]>> : b \in bases}}

WellFormedEntry(e) == \A i \in DOMAIN e.deltas : e.deltas[i].base /= e.oid

OidsOf(m) == {m[i].oid : i \in DOMAIN m}

InitManifest ==
    /\ parents = Chain
    /\ \E m1 \in SeqsUpTo(EntriesOver({}), MaxEntries) :
       \E m2 \in SeqsUpTo({e \in EntriesOver(OidsOf(m1) \cap {<<"o", 1>>}) :
                                WellFormedEntry(e)},
                          MaxEntries) :
          manifest = [c \in Commits |-> IF c = 1 THEN m1 ELSE IF c = 2 THEN m2 ELSE <<>>]
    /\ bookmarkTable = (Main :> 2)
    /\ tagMap = {}
    /\ \E h \in {{}, {1}} :
          req \in {PackRequest(AllRefs, NoSymrefs, "AsIs", h, ExcludeDeltas, pol) :
                      pol \in {"Generate", "FetchOnly", "FetchAndStore"}}
                  \cup {PackRequest(AllRefs, NoSymrefs, "AsIs", h,
                                    IncludeDeltas(ThreeQuarters), "Generate"),
                        FetchRequest({GitCommitOid(2)}, {GitCommitOid(c) : c \in h},
                                     ThreeQuarters)}
    /\ gitMap = FullMapping
    /\ symrefTable = {}
    /\ store = Stored({<<"o", 1>>} \cup {GitCommitOid(c) : c \in Commits})
    /\ Idle

SpecManifest == InitManifest /\ [][Next]_vars

\* Inputs of the delta chooser: the one entry of changeset 2, of any size,
\* with any deltas against the object of changeset 1, under any threshold
Thresholds == {[num |-> 1, den |-> 4], Half, ThreeQuarters, [num |-> 1, den |-> 1]}

DeltasOver(base) == {[base |-> base, origin |-> 1, csize |-> k] : k \in 0 .. MaxSize}

InitDelta ==
    /\ parents = Chain
    /\ \E s \in 0 .. MaxSize, ds \in SeqsUpTo(DeltasOver(<<"o", 1>>), MaxDeltas) :
          manifest = [c \in Commits |->
                        IF c = 1 THEN <<[oid |-> <<"o", 1>>, size |-> 4, deltas |-> <<>>]>>
                        ELSE IF c = 2
                        THEN <<[oid |-> <<"o", 2>>, size |-> s, deltas |-> ds]>>
                        ELSE <<>>]
    /\ bookmarkTable = (Main :> 2)
    /\ tagMap = {}
    /\ req \in {PackRequest(AllRefs, NoSymrefs, "AsIs", {}, di, "Generate") :
                   di \in {ExcludeDeltas} \cup {IncludeDeltas(t) : t \in Thresholds}}
               \cup {FetchRequest({GitCommitOid(2)}, {}, ThreeQuarters)}
    /\ gitMap = FullMapping
    /\ symrefTable = {}
    /\ store = Stored({})
    /\ Idle

SpecDelta == InitDelta /\ [][Next]_vars

\* Inputs of the Ref Resolver: a branch and possibly a tag, annotated or not,
\* a bonsai-git mapping that may lack one changeset, a HEAD symref or none,
\* a second symref, and every form of the three ref parameters of a request
Unknown == <<"heads/", "unknown">>
\* a synthetic name given in full, as a client writes a ref
FullRefName == <<"refs/", "heads/", "unknown">>
ALT_REF == <<"ALT">>
HeadsRef == <<"refs/", "heads/", "main">>
TagsRef == <<"refs/", "tags/", "v1">>

RequestedRefsChoices ==
    {[kind |-> k, names |-> S, value |-> NoMap] :
        k \in {"Included", "Excluded"}, S \in SUBSET {Main, TagV1}}
    \cup {[kind |-> "IncludedWithPrefix", names |-> P, value |-> NoMap] :
            P \in {{}, {<<"refs/">>}, {<<"refs/", "heads/">>}, {<<"refs/", "tags/">>}}}
    \cup {[kind |-> "IncludedWithValue", names |-> {}, value |-> (n :> c)] :
            n \in {Main, Unknown, TagV1, FullRefName}, c \in Commits}

RequestedSymrefsChoices ==
    {NoSymrefs}
    \cup {[kind |-> k, format |-> f] :
            k \in {"IncludeHead", "IncludeAll"}, f \in {"NameOnly", "NameWithTarget"}}

InitRefs ==
    /\ parents = Chain
    /\ manifest = [c \in Commits |-> <<>>]
    /\ \E m \in Commits :
          bookmarkTable \in {(Main :> m), (Main :> m) @@ (TagV1 :> 1)}
    /\ tagMap \in SUBSET {TagV1Entry}
    /\ \E u \in SUBSET Commits :
          /\ Cardinality(u) <= 1
          /\ gitMap = [c \in Commits \ u |-> GitCommitOid(c)]
    /\ symrefTable \in {{},
                        {[symref_name |-> HEAD_REF, ref_name_with_type |-> HeadsRef]},
                        {[symref_name |-> HEAD_REF, ref_name_with_type |-> TagsRef]},
                        {[symref_name |-> HEAD_REF, ref_name_with_type |-> HeadsRef],
                         [symref_name |-> ALT_REF, ref_name_with_type |-> TagsRef]}}
    /\ req \in {PackRequest(rr, rs, ti, {}, ExcludeDeltas, "Generate") :
                   rr \in RequestedRefsChoices,
                   rs \in RequestedSymrefsChoices,
                   ti \in {"AsIs", "Peeled", "WithTarget"}}
    /\ store = Stored({})
    /\ Idle

SpecRefs == InitRefs /\ [][NextRefs]_vars

\* Snapshots of the tag slice: the chain with one-file manifests, a branch,
\* possibly the tag tags/v1 (annotated or simple), possibly an annotated tag
\* tags/v2 that no bookmark names; a pack request under each TagInclusion,
\* or a fetch whose heads and bases may hold a commit id, a tag object id
\* and an id the repository does not know
TagV2 == <<"tags/", "v2">>
TagV2Entry == [tag_name |-> TagV2, tag_hash |-> <<"t", 2>>]
UnknownOid == <<"x", 0>>

InitTags ==
    /\ parents = Chain
    /\ manifest = OneFileManifest(Chain)
    /\ \E m \in Commits :
          /\ bookmarkTable \in {(Main :> m), (Main :> m) @@ (TagV1 :> 1)}
          /\ req \in {PackRequest(rr, NoSymrefs, ti, h, ExcludeDeltas, "Generate") :
                         rr \in {AllRefs, FilterRefs("Included", {Main})},
                         ti \in {"AsIs", "Peeled", "WithTarget"},
                         h \in {{}, {1}}}
                     \cup {FetchRequest(H, B, ThreeQuarters) :
                             H \in SUBSET {GitCommitOid(m), <<"t", 1>>, UnknownOid},
                             B \in SUBSET {GitCommitOid(1), UnknownOid}}
    /\ tagMap \in SUBSET {TagV1Entry, TagV2Entry}
    /\ gitMap = FullMapping
    /\ symrefTable = {}
    /\ store = Stored({})
    /\ Idle

SpecTags == InitTags /\ [][Next]_vars

\* Inputs of the delta chooser with ties: changeset 1 holds two objects, and
\* the one entry of changeset 2, of any size, has any deltas of any
\* compressed size against either of them; changeset 1 is a have
ChooserBases == {<<"o", 1>>, <<"o", 3>>}

InitChooser ==
    /\ parents = Chain
    /\ \E s \in 0 .. MaxSize,
          ds \in SeqsUpTo(UNION {DeltasOver(b) : b \in ChooserBases}, MaxDeltas) :
          manifest = [c \in Commits |->
                        IF c = 1
                        THEN <<[oid |-> <<"o", 1>>, size |-> 4, deltas |-> <<>>],
                               [oid |-> <<"o", 3>>, size |-> 4, deltas |-> <<>>]>>
                        ELSE IF c = 2
                        THEN <<[oid |-> <<"o", 2>>, size |-> s, deltas |-> ds]>>
                        ELSE <<>>]
    /\ bookmarkTable = (Main :> 2)
    /\ tagMap = {}
    /\ req \in {PackRequest(AllRefs, NoSymrefs, "AsIs", {1}, IncludeDeltas(t), "Generate") :
                   t \in Thresholds}
               \cup {FetchRequest({GitCommitOid(2)}, {GitCommitOid(1)}, Half)}
    /\ gitMap = FullMapping
    /\ symrefTable = {}
    /\ store = Stored({})
    /\ Idle

SpecChooser == InitChooser /\ [][Next]_vars

\* Inputs of the Base Item Provider: computations for two objects under any
\* inclusion, running side by side over a store that holds the first object
\* or nothing
NextStore == \E i \in DOMAIN calls : BaseItemFetch(i) \/ BaseItemUpload(i)

InitStore ==
    /\ parents = Chain
    /\ manifest = OneFileManifest(Chain)
    /\ bookmarkTable = (Main :> 2)
    /\ tagMap = {}
    /\ gitMap = FullMapping
    /\ symrefTable = {}
    /\ req = PackRequest(AllRefs, NoSymrefs, "AsIs", {}, ExcludeDeltas, "FetchAndStore")
    /\ lsResp = [status |-> "none", refs |-> NoMap]
    /\ resp = NoResp
    /\ seg = "idle"
    /\ outer = NoOuter
    /\ buf = NoBuf
    /\ out = <<>>
    /\ store \in {Stored({}), Stored({<<"o", 1>>})}
    /\ calls \in [1 .. MaxCalls ->
                    {Call(o, pol) : o \in BlobOids,
                                    pol \in {"Generate", "FetchOnly", "FetchAndStore"}}]

SpecStore == InitStore /\ [][NextStore]_vars

\* The handlers side by side over the snapshots of the manifest slice with
\* at most one entry in the second manifest
NextFrame == ls_refs_response \/ Next

InitFrame == InitManifest /\ Len(manifest[2]) <= 1

SpecFrame == InitFrame /\ [][NextFrame]_vars

\* ------------------------------------------------------------------ claims

Drained == resp.status = "ok" /\ seg = "end"
NoErrorYielded == \A i \in DOMAIN out : out[i].item.kind /= "error"
TreeItems == {i \in DOMAIN out : out[i].seg = "tree"}
CommitItems == {i \in DOMAIN out : out[i].seg = "commit"}
TagItems == {i \in DOMAIN out : out[i].seg = "tag"}
IsDelta(i) == out[i].item.kind = "delta"
EntryOf(i) == manifest[out[i].item.cs][out[i].item.idx]
\* the place of a changeset in the target commit list
PlaceOf(c) == CHOOSE k \in DOMAIN resp.commits : resp.commits[k] = c

\* C1: once the stream of a successful request is drained without an error,
\* the number of items it yielded equals the declared object_count.
C1_ObjectCountMatchesStream ==
    (Drained /\ NoErrorYielded) => Len(out) = resp.object_count

\* C2: every delta item is preceded, in the same stream, by an item whose
\* object id is the delta's base.
C2_DeltaBasePrecedes ==
    \A j \in DOMAIN out :
        IsDelta(j) =>
            \E i \in 1 .. (j - 1) :
                /\ out[i].item.kind /= "error"
                /\ out[i].item.oid = out[j].item.base_oid

\* C3, as stated: every item emitted for a changeset A (its commit item and
\* its tree/blob items) precedes every item emitted for a descendant B.
C3_AncestorItemsPrecedeAll ==
    \A i, j \in CommitItems \cup TreeItems :
        out[i].item.cs \in ProperAncestors(out[j].item.cs) => i < j

\* C3, amended: within the commit sub-stream and within the tree/blob
\* sub-stream, the items of a changeset A precede those of a descendant B.
C3_AncestorItemsPrecede ==
    \A i, j \in DOMAIN out :
        /\ out[i].seg = out[j].seg
        /\ out[i].seg \in {"commit", "tree"}
        /\ out[i].item.cs \in ProperAncestors(out[j].item.cs)
        => i < j

C3_Witness ==
    /\ seg = "end"
    /\ \E i, j \in TreeItems : out[i].item.cs \in ProperAncestors(out[j].item.cs)
    /\ \E i, j \in CommitItems : out[i].item.cs \in ProperAncestors(out[j].item.cs)

\* C4: the tree/blob items of one changeset come out in the order of the
\* sub-entries of its delta manifest, whatever the order of completion: the
\* k-th item yielded for the changeset is the item of its k-th sub-entry.
C4_ManifestOrder ==
    \A j \in TreeItems :
        out[j].item.idx =
            Cardinality({i \in TreeItems : i <= j /\ out[i].item.cs = out[j].item.cs})

\* an entry that finished first was yielded after an earlier entry that
\* finished later
C4_Witness ==
    \E i, j \in TreeItems :
        /\ i < j
        /\ out[i].item.cs = out[j].item.cs
        /\ out[i].rank > out[j].rank

\* C5: the k-th commit item is the item of the k-th target commit, and the
\* tree/blob items of a target commit all precede those of the next one,
\* whatever the order of completion.
C5_CommitOrder ==
    /\ \A j \in CommitItems :
          /\ out[j].item.cs = resp.commits[out[j].item.idx]
          /\ out[j].item.idx = Cardinality({i \in CommitItems : i <= j})
    /\ \A i, j \in TreeItems :
          PlaceOf(out[i].item.cs) < PlaceOf(out[j].item.cs) => i < j

\* the first target commit finished after the second and was yielded first,
\* and the tree/blob items of two commits followed
C5_Witness ==
    /\ \E i, j \in CommitItems : i < j /\ out[i].rank > out[j].rank
    /\ \E i, j \in TreeItems : out[i].item.cs /= out[j].item.cs

\* C6: every tag item precedes every commit item, and every commit item
\* precedes every tree/blob item.
C6_SegmentOrder ==
    \A i, j \in DOMAIN out :
        \/ out[i].item.oid[1] = "t" /\ out[j].item.oid[1] \in {"c", "o"}
        \/ out[i].item.oid[1] = "c" /\ out[j].item.oid[1] = "o"
        => i < j

C6_Witness ==
    /\ seg = "end"
    /\ \E i, j, k \in DOMAIN out :
          /\ out[i].item.oid[1] = "t"
          /\ out[j].item.oid[1] = "c"
          /\ out[k].item.oid[1] = "o"

\* C7: with Include{threshold = t}, every delta emitted for an entry has
\* instructions_compressed_size < full.size * t.
C7_DeltaBelowThreshold ==
    \A j \in TreeItems :
        IsDelta(j) =>
            /\ resp.delta_inclusion.kind = "Include"
            /\ out[j].item.csize * resp.delta_inclusion.threshold.den
                  < EntryOf(j).size * resp.delta_inclusion.threshold.num

\* a delta was emitted, under a threshold below 1
C7_Witness ==
    \E j \in TreeItems :
        /\ IsDelta(j)
        /\ resp.delta_inclusion.threshold.num < resp.delta_inclusion.threshold.den

\* C8: with DeltaInclusion::Exclude, generate_pack_item_stream yields no
\* delta: every tree/blob entry comes out as the Base Item Provider's item.
C8_ExcludeYieldsNoDelta ==
    (req.handler = "pack" /\ req.delta_inclusion.kind = "Exclude") =>
        \A j \in TreeItems :
            /\ ~IsDelta(j)
            /\ out[j].item.oid = EntryOf(j).oid
            /\ out[j].item.kind \in
                  IF req.packfile_item_inclusion = "Generate" THEN {"base"}
                  ELSE {"encoded_base", "error"}

\* an entry that lists a delta below any threshold came out in base form
C8_Witness ==
    /\ req.handler = "pack"
    /\ req.delta_inclusion.kind = "Exclude"
    /\ \E j \in TreeItems : EntryOf(j).deltas /= <<>> /\ out[j].item.kind = "base"

\* C9: for one snapshot and the same requested_refs, requested_symrefs and
\* tag_inclusion, the ref map of ls_refs_response equals the ref map of
\* generate_pack_item_stream.
C9_SameRefMap ==
    (lsResp.status = "ok" /\ resp.status = "ok") => lsResp.refs = resp.refs

\* both handlers answered, with a branch, a tag and a symref in the map
C9_Witness ==
    /\ lsResp.status = "ok"
    /\ resp.status = "ok"
    /\ {HEAD_REF, HeadsRef, TagsRef} \subseteq DOMAIN lsResp.refs
    /\ lsResp.refs[HEAD_REF].kind = "WithMetadata"

SelectedBookmarks == bookmarks(req.requested_refs)
BranchOrSimpleTag(b) == ~IsTag(b) \/ BookmarkToString(b) \notin DOMAIN bonsai_tag_map
HasPlainCommitRef(refs, b) ==
    /\ (REFS_PREFIX \o BookmarkToString(b)) \in DOMAIN refs
    /\ SelectedBookmarks[b] \in DOMAIN gitMap
    /\ refs[REFS_PREFIX \o BookmarkToString(b)] = Plain(gitMap[SelectedBookmarks[b]])

\* C10: for every selected bookmark that is a branch or a simple tag, the
\* resolved ref map holds "refs/" + bookmark with target Plain(g), g the git
\* id the bonsai-git mapping records for its changeset, under every
\* TagInclusion.
C10_PlainCommitTarget ==
    \A b \in DOMAIN SelectedBookmarks :
        BranchOrSimpleTag(b) =>
            /\ lsResp.status = "ok" => HasPlainCommitRef(lsResp.refs, b)
            /\ resp.status = "ok" => HasPlainCommitRef(resp.refs, b)

\* a simple tag resolved next to a branch, under WithTarget
C10_Witness ==
    /\ lsResp.status = "ok"
    /\ resp.status = "ok"
    /\ req.tag_inclusion = "WithTarget"
    /\ tagMap = {}
    /\ {Main, TagV1} \subseteq DOMAIN SelectedBookmarks
    /\ SelectedBookmarks[Main] /= SelectedBookmarks[TagV1]

\* the ref maps the two handlers have returned so far
ReturnedRefMaps ==
    (IF lsResp.status = "ok" THEN {lsResp.refs} ELSE {})
    \cup (IF resp.status = "ok" THEN {resp.refs} ELSE {})
RefNameOf(b) == REFS_PREFIX \o BookmarkToString(b)
AnnotatedTagBookmark(b) ==
    IsTag(b) /\ \E e \in tagMap : e.tag_name = BookmarkToString(b)
TagObjectOf(b) == (CHOOSE e \in tagMap : e.tag_name = BookmarkToString(b)).tag_hash
ExpectedTagTarget(b) ==
    LET T == TagObjectOf(b)
        C == gitMap[SelectedBookmarks[b]]
    IN  CASE req.tag_inclusion = "AsIs" -> Plain(T)
          [] req.tag_inclusion = "Peeled" -> Plain(C)
          [] req.tag_inclusion = "WithTarget" ->
                WithMetadata(T, <<"peeled:">> \o ToHex(C))

\* C11: an annotated tag bookmark with tag object T and commit id C resolves
\* to Plain(T) under AsIs, Plain(C) under Peeled and
\* WithMetadata(T, "peeled:" + hex(C)) under WithTarget; under Peeled no
\* bookmark-derived ref has a WithMetadata target.
C11_AnnotatedTagTarget ==
    \A refs \in ReturnedRefMaps :
        /\ \A b \in DOMAIN SelectedBookmarks :
              (AnnotatedTagBookmark(b) /\ SelectedBookmarks[b] \in DOMAIN gitMap) =>
                  /\ RefNameOf(b) \in DOMAIN refs
                  /\ refs[RefNameOf(b)] = ExpectedTagTarget(b)
        /\ req.tag_inclusion = "Peeled" =>
              \A b \in DOMAIN SelectedBookmarks :
                  RefNameOf(b) \in DOMAIN refs => refs[RefNameOf(b)].kind = "Plain"

\* an annotated tag was resolved by both handlers under WithTarget, its
\* changeset not the branch's
C11_Witness ==
    /\ lsResp.status = "ok"
    /\ resp.status = "ok"
    /\ req.tag_inclusion = "WithTarget"
    /\ TagV1 \in DOMAIN SelectedBookmarks
    /\ AnnotatedTagBookmark(TagV1)
    /\ {HeadsRef, TagsRef} \subseteq DOMAIN lsResp.refs
    /\ lsResp.refs[TagsRef].kind = "WithMetadata"
    /\ lsResp.refs[TagsRef].id /= lsResp.refs[HeadsRef].id

SymrefNames == {e.symref_name : e \in symrefTable}
WellFormedRefName(k) ==
    /\ Len(k) >= 3
    /\ k[1] = "refs/"
    /\ k[2] \in {"heads/", "tags/"}
    /\ \A i \in 2 .. Len(k) : k[i] /= "refs/"

\* C13: every key of a returned ref map is a symref's bare name or has the
\* form "refs/" + category + "/" + name with one leading "refs/", for every
\* RequestedRefs variant, names injected through IncludedWithValue included.
C13_WellFormedKeys ==
    \A refs \in ReturnedRefMaps :
        \A k \in DOMAIN refs : k \in SymrefNames \/ WellFormedRefName(k)

NeedsCommitId(b) ==
    \/ ~AnnotatedTagBookmark(b)
    \/ req.tag_inclusion \in {"Peeled", "WithTarget"}
UnmappedSelected ==
    {b \in DOMAIN SelectedBookmarks :
        NeedsCommitId(b) /\ SelectedBookmarks[b] \notin DOMAIN gitMap}

\* C14: when a selected bookmark whose target must be the commit id points
\* to a changeset with no bonsai-git mapping, ls_refs_response and
\* generate_pack_item_stream fail: neither returns a ref map.
C14_MissingMappingFails ==
    UnmappedSelected /= {} => lsResp.status /= "ok" /\ resp.status /= "ok"

\* both handlers failed on an annotated tag under WithTarget whose changeset
\* has no mapping, every other selected bookmark being mapped
C14_Witness ==
    /\ lsResp.status = "err"
    /\ resp.status = "err"
    /\ req.tag_inclusion = "WithTarget"
    /\ UnmappedSelected = {TagV1}
    /\ AnnotatedTagBookmark(TagV1)
    /\ Main \in DOMAIN SelectedBookmarks

RequestedSymrefEntries ==
    CASE req.requested_symrefs.kind = "IncludeHead" ->
            {e \in symrefTable : e.symref_name = HEAD_REF}
      [] req.requested_symrefs.kind = "IncludeAll" -> symrefTable
      [] req.requested_symrefs.kind = "ExcludeAll" -> {}
ExpectedSymrefTarget(refs, e) ==
    LET R == e.ref_name_with_type
        o == refs[R].id
    IN  IF req.requested_symrefs.format = "NameWithTarget"
        THEN WithMetadata(o, <<"symref-target:">> \o R)
        ELSE Plain(o)

MissingSymrefTarget ==
    \E e \in RequestedSymrefEntries :
        \A b \in DOMAIN SelectedBookmarks : RefNameOf(b) /= e.ref_name_with_type

\* C16: with IncludeHead or IncludeAll, when the target ref of a requested
\* symref is not in the resolved ref map, the handler fails: no ref map is
\* returned.
C16_MissingSymrefTargetFails ==
    (req.requested_symrefs.kind \in {"IncludeHead", "IncludeAll"}
        /\ MissingSymrefTarget)
    => lsResp.status /= "ok" /\ resp.status /= "ok"

\* both handlers failed because requested_refs filtered out the branch HEAD
\* points at, every selected bookmark being resolvable
C16_Witness ==
    /\ lsResp.status = "err"
    /\ resp.status = "err"
    /\ req.requested_symrefs.kind = "IncludeHead"
    /\ req.requested_refs.kind = "IncludedWithPrefix"
    /\ Main \in DOMAIN bookmarkTable
    /\ DOMAIN SelectedBookmarks = {TagV1}
    /\ UnmappedSelected = {}
    /\ MissingSymrefTarget

ExpectedKept(rr) ==
    {b \in DOMAIN bookmarkTable :
        CASE rr.kind = "Included" -> BookmarkName(b) \in rr.names
          [] rr.kind = "Excluded" -> BookmarkName(b) \notin rr.names
          [] rr.kind = "IncludedWithPrefix" ->
                \E p \in rr.names :
                    /\ Len(p) <= Len(REFS_PREFIX \o BookmarkName(b))
                    /\ \A i \in 1 .. Len(p) : p[i] = (REFS_PREFIX \o BookmarkName(b))[i]}

\* C17: under Included(S) a bookmark is kept iff its name is in S, under
\* Excluded(S) iff it is not (the two partition the bookmarks, Excluded({})
\* keeps all, Included({}) none), under IncludedWithPrefix(P) iff some p in P
\* is a prefix of "refs/" + name; a kept bookmark keeps the server's changeset.
C17_BookmarkFilter ==
    /\ req.requested_refs.kind \in {"Included", "Excluded", "IncludedWithPrefix"} =>
          /\ SelectedBookmarks =
                [b \in ExpectedKept(req.requested_refs) |-> bookmarkTable[b]]
          /\ \A refs \in ReturnedRefMaps :
                {k \in DOMAIN refs : StartsWith(k, REFS_PREFIX)} =
                    {RefNameOf(b) : b \in ExpectedKept(req.requested_refs)}
    /\ \A S \in SUBSET {Main, TagV1, Unknown} :
          LET inc == DOMAIN bookmarks(FilterRefs("Included", S))
              exc == DOMAIN bookmarks(FilterRefs("Excluded", S))
          IN  inc \cup exc = DOMAIN bookmarkTable /\ inc \cap exc = {}
    /\ DOMAIN bookmarks(FilterRefs("Excluded", {})) = DOMAIN bookmarkTable
    /\ DOMAIN bookmarks(FilterRefs("Included", {})) = {}

\* a prefix kept the branch and dropped the tag
C17_Witness ==
    /\ lsResp.status = "ok"
    /\ resp.status = "ok"
    /\ req.requested_refs = FilterRefs("IncludedWithPrefix", {<<"refs/", "heads/">>})
    /\ DOMAIN bookmarkTable = {Main, TagV1}
    /\ HeadsRef \in DOMAIN lsResp.refs
    /\ TagsRef \notin DOMAIN lsResp.refs

InjectedNamesSelected ==
    /\ DOMAIN SelectedBookmarks = {WithName(n) : n \in DOMAIN req.requested_refs.value}
    /\ \A n \in DOMAIN req.requested_refs.value :
          SelectedBookmarks[WithName(n)] = req.requested_refs.value[n]

\* C18, as stated: with IncludedWithValue(M) the selected bookmarks are the
\* names of M, each with changeset M[name], and when M[name] has a git
\* mapping the ref map holds that ref with target Plain(bonsai_git[M[name]]).
C18_InjectedPlainTarget ==
    req.requested_refs.kind = "IncludedWithValue" =>
        /\ InjectedNamesSelected
        /\ \A refs \in ReturnedRefMaps :
              \A b \in DOMAIN SelectedBookmarks :
                  SelectedBookmarks[b] \in DOMAIN gitMap =>
                      /\ RefNameOf(b) \in DOMAIN refs
                      /\ refs[RefNameOf(b)] = Plain(gitMap[SelectedBookmarks[b]])

\* C18, amended: as above, except that a name that is an annotated tag gets
\* the target its TagInclusion gives an annotated tag: Plain(T) under AsIs,
\* WithMetadata(T, "peeled:" + hex(bonsai_git[M[name]])) under WithTarget.
C18_InjectedTarget ==
    req.requested_refs.kind = "IncludedWithValue" =>
        /\ InjectedNamesSelected
        /\ \A refs \in ReturnedRefMaps :
              \A b \in DOMAIN SelectedBookmarks :
                  SelectedBookmarks[b] \in DOMAIN gitMap =>
                      /\ RefNameOf(b) \in DOMAIN refs
                      /\ refs[RefNameOf(b)] =
                            IF AnnotatedTagBookmark(b) THEN ExpectedTagTarget(b)
                            ELSE Plain(gitMap[SelectedBookmarks[b]])

\* the branch the server tracks was answered with the changeset of the
\* request, not the server's
C18_Witness ==
    /\ lsResp.status = "ok"
    /\ resp.status = "ok"
    /\ req.requested_refs.kind = "IncludedWithValue"
    /\ DOMAIN req.requested_refs.value = {Main}
    /\ req.requested_refs.value[Main] /= bookmarkTable[Main]
    /\ lsResp.refs[HeadsRef] = Plain(gitMap[req.requested_refs.value[Main]])

SelectedAnnotatedTags ==
    {e \in tagMap :
        \E b \in DOMAIN SelectedBookmarks : IsTag(b) /\ BookmarkToString(b) = e.tag_name}
Occurrences(oid) == Cardinality({i \in DOMAIN out : out[i].item.oid = oid})
TargetTreeAndBlobIds == UNION {ManifestOids(c) : c \in Range(resp.commits)}

\* C12: in generate_pack_item_stream the object of a selected annotated tag
\* is in the stream exactly once, and counted once in object_count, under
\* AsIs and WithTarget, and is not in the stream, nor counted, under Peeled.
C12_TagObjectOncePerInclusion ==
    (req.handler = "pack" /\ Drained) =>
        /\ \A e \in SelectedAnnotatedTags :
              Occurrences(e.tag_hash) = IF req.tag_inclusion = "Peeled" THEN 0 ELSE 1
        /\ resp.object_count =
              Len(resp.commits) + Cardinality(TargetTreeAndBlobIds)
              + (IF req.tag_inclusion = "Peeled" THEN 0
                 ELSE Cardinality(SelectedAnnotatedTags))

\* C19: fetch_response yields one tag item for every entry of the bonsai-tag
\* mapping, whatever the heads and bases are, and declares object_count =
\* target commits + distinct tree/blob ids of their manifests + entries of
\* the bonsai-tag mapping.
C19_FetchSendsAllTags ==
    (req.handler = "fetch" /\ resp.status = "ok") =>
        /\ resp.object_count =
              Len(resp.commits) + Cardinality(TargetTreeAndBlobIds)
              + Cardinality(tagMap)
        /\ seg \in {"commit", "tree", "end"} =>
              /\ Cardinality(TagItems) = Cardinality(tagMap)
              /\ \A e \in tagMap :
                    Cardinality({i \in TagItems : out[i].item.oid = e.tag_hash}) = 1

\* a fetch that selects no commit was drained and yielded the two tags of
\* the repository
C19_Witness ==
    /\ req.handler = "fetch"
    /\ Drained
    /\ resp.commits = <<>>
    /\ tagMap = {TagV1Entry, TagV2Entry}
    /\ Cardinality(TagItems) = 2

KnownIds(S) ==
    {o \in S : \/ \E c \in DOMAIN gitMap : gitMap[c] = o
               \/ \E e \in tagMap : e.tag_hash = o}

\* C20: an id that is neither in the bonsai-git mapping nor the hash of an
\* annotated tag contributes no changeset and no error: the translation of
\* a set of ids is that of the set without such ids, and fetch_response
\* succeeds on the commits the known ids select.
C20_UnknownIdsDropped ==
    req.handler = "fetch" =>
        /\ git_shas_to_bonsais(req.heads) = git_shas_to_bonsais(KnownIds(req.heads))
        /\ git_shas_to_bonsais(req.bases) = git_shas_to_bonsais(KnownIds(req.bases))
        /\ resp.status /= "err"
        /\ resp.status = "ok" =>
              Range(resp.commits) =
                  AncestorsDifference(git_shas_to_bonsais(KnownIds(req.heads)),
                                      git_shas_to_bonsais(KnownIds(req.bases)))

\* a fetch whose heads and bases each held an unknown id answered with the
\* commits of the known head
C20_Witness ==
    /\ req.handler = "fetch"
    /\ resp.status = "ok"
    /\ UnknownOid \in req.heads
    /\ UnknownOid \in req.bases
    /\ KnownIds(req.heads) /= {}
    /\ resp.commits /= <<>>

HasGitRow(o) == \E c \in DOMAIN gitMap : gitMap[c] = o
ExpectedBonsais(S) ==
    {c \in DOMAIN gitMap : gitMap[c] \in S}
    \cup {bookmarkTable[b] :
            b \in {k \in DOMAIN bookmarkTable :
                     /\ IsTag(k)
                     /\ \E e \in tagMap :
                           /\ e.tag_name = BookmarkName(k)
                           /\ e.tag_hash \in S
                           /\ ~HasGitRow(e.tag_hash)}}

\* C21: the translation of a set of git ids is the changesets of the ids
\* with a bonsai-git row together with the changesets of the tags/ bookmarks
\* named by the bonsai-tag entries whose hash is an id without a row;
\* fetch_response takes its target commits from these sets.
C21_ShaTranslation ==
    req.handler = "fetch" =>
        /\ git_shas_to_bonsais(req.heads) = ExpectedBonsais(req.heads)
        /\ git_shas_to_bonsais(req.bases) = ExpectedBonsais(req.bases)
        /\ resp.status = "ok" =>
              Range(resp.commits) =
                  AncestorsDifference(ExpectedBonsais(req.heads),
                                      ExpectedBonsais(req.bases))

\* a fetch whose heads hold a commit id and the object id of an annotated
\* tag that a bookmark names, at another changeset, was answered
C21_Witness ==
    /\ req.handler = "fetch"
    /\ resp.status = "ok"
    /\ <<"t", 1>> \in req.heads
    /\ TagV1Entry \in tagMap
    /\ TagV1 \in DOMAIN bookmarkTable
    /\ \E c \in DOMAIN gitMap :
          gitMap[c] \in req.heads /\ c /= bookmarkTable[TagV1]
    /\ bookmarkTable[TagV1] \in ExpectedBonsais(req.heads)

Done(i) == calls[i].pc = "done"
FetchAndStoreCalls == {i \in DOMAIN calls : calls[i].inclusion = "FetchAndStore"}
FetchOnlyCalls == {i \in DOMAIN calls : calls[i].inclusion = "FetchOnly"}
EncodedBaseOf(i) ==
    [kind |-> "encoded_base", oid |-> calls[i].oid, bytes |-> store[calls[i].oid]]

\* C22: a FetchAndStore computation that finds the base item stored returns
\* it and uploads nothing; one that does not uploads exactly one base item,
\* built from the raw bytes, under the requested id and returns it; after a
\* FetchAndStore computation has returned, a FetchOnly or FetchAndStore
\* lookup of the same id finds the item and uploads nothing.
C22_FetchAndStore ==
    \A i \in FetchAndStoreCalls :
        Done(i) =>
            /\ calls[i].oid \in DOMAIN store
            /\ calls[i].result = EncodedBaseOf(i)
            /\ calls[i].uploaded = IF calls[i].hit THEN 0 ELSE 1
            /\ ~calls[i].hit =>
                  store[calls[i].oid] = PackfileBaseItem(object_bytes(calls[i].oid))
            /\ \A j \in (FetchAndStoreCalls \cup FetchOnlyCalls) :
                  (i \in calls[j].before /\ calls[j].oid = calls[i].oid) =>
                      /\ calls[j].hit
                      /\ calls[j].uploaded = 0
                      /\ calls[j].result = EncodedBaseOf(j)

\* a FetchAndStore computation missed and uploaded, and a FetchOnly
\* computation for the same id that started after it has returned
C22_Witness ==
    \E i \in FetchAndStoreCalls, j \in FetchOnlyCalls :
        /\ Done(i) /\ Done(j)
        /\ ~calls[i].hit /\ calls[i].uploaded = 1
        /\ calls[j].oid = calls[i].oid
        /\ i \in calls[j].before

\* C23: however FetchAndStore computations for one id interleave, all of
\* them return the same base item and the store holds, under that id, what
\* one computation run alone would have stored.
C23_ConcurrentFetchAndStore ==
    \A i \in FetchAndStoreCalls :
        Done(i) =>
            /\ calls[i].oid \in DOMAIN store
            /\ store[calls[i].oid] =
                  base_packfile_item(calls[i].oid, "FetchAndStore", Stored({}), 0, 0)
                      .store[calls[i].oid]
            /\ \A j \in FetchAndStoreCalls :
                  (Done(j) /\ calls[j].oid = calls[i].oid) =>
                      calls[j].result = calls[i].result

\* two FetchAndStore computations for one id both missed before either
\* uploaded, and both have returned
C23_Witness ==
    \E i, j \in FetchAndStoreCalls :
        /\ i /= j
        /\ calls[i].oid = calls[j].oid
        /\ Done(i) /\ Done(j)
        /\ calls[i].uploaded = 1 /\ calls[j].uploaded = 1

\* C24: a FetchOnly computation returns the stored item when there is one
\* and an error when there is none; it never generates the item and never
\* uploads, so an absent id stays absent unless another computation stores it.
C24_FetchOnly ==
    \A i \in FetchOnlyCalls :
        Done(i) =>
            /\ calls[i].uploaded = 0
            /\ calls[i].result.kind = IF calls[i].hit THEN "encoded_base" ELSE "error"
            /\ (\A j \in DOMAIN calls : calls[j].uploaded = 0) =>
                  (calls[i].hit <=> calls[i].oid \in DOMAIN store)

\* a FetchOnly computation failed and its id is still absent from the store
C24_Witness ==
    \E i \in FetchOnlyCalls :
        /\ Done(i)
        /\ calls[i].result.kind = "error"
        /\ calls[i].oid \notin DOMAIN store

\* C25: ls_refs_response, the handlers and the draining of a stream under
\* Generate or FetchOnly leave the store as it is; a step changes the store
\* only by completing a FetchAndStore computation whose object was not
\* stored, and only by adding the base item of that object under its id.
C25_StoreFrame ==
    [][store' /= store =>
          /\ resp.status = "ok"
          /\ resp.packfile_item_inclusion = "FetchAndStore"
          /\ lsResp' = lsResp /\ resp' = resp
          /\ \E i \in DOMAIN buf'.done \ DOMAIN buf.done :
                LET oid == buf'.done[i].item.oid
                IN  /\ buf'.done[i].item.kind = "encoded_base"
                    /\ oid \notin DOMAIN store
                    /\ store' = Extend(store, oid :> PackfileBaseItem(object_bytes(oid)))]_vars

\* ls_refs_response has answered and a FetchOnly stream that met an object
\* without a stored item was drained, the store being the initial one
C25_Witness ==
    /\ lsResp.status = "ok"
    /\ Drained
    /\ resp.packfile_item_inclusion = "FetchOnly"
    /\ \E k \in DOMAIN out : out[k].item.kind = "error"
    /\ store = Stored({<<"o", 1>>} \cup {GitCommitOid(c) : c \in Commits})

\* C26: an error is the last element of the composed stream: no item and
\* no error is yielded after it, and no later sub-stream is started.
C26_ErrorIsTerminal ==
    \A k \in DOMAIN out :
        out[k].item.kind = "error" =>
            /\ k = Len(out)
            /\ seg \in {out[k].seg, "end"}

BelowThreshold(e, t) ==
    {i \in DOMAIN e.deltas : e.deltas[i].csize * t.den < e.size * t.num}
\* the first of the deltas of the smallest compressed size
FirstSmallest(e) ==
    CHOOSE i \in DOMAIN e.deltas :
        /\ \A k \in DOMAIN e.deltas : e.deltas[i].csize <= e.deltas[k].csize
        /\ \A k \in 1 .. (i - 1) : e.deltas[k].csize /= e.deltas[i].csize

\* C28: with Include{threshold = t}, an entry is emitted as a delta exactly
\* when one of its deltas has a compressed size below full.size * t, and the
\* delta emitted is then the one of the smallest compressed size, the first
\* of them in the entry's order; an entry without deltas is never a delta.
C28_SmallestDeltaChosen ==
    resp.delta_inclusion.kind = "Include" =>
        \A j \in TreeItems :
            LET e == EntryOf(j)
                chosen == delta_base(e, resp.delta_inclusion)
            IN  /\ IsDelta(j) <=> BelowThreshold(e, resp.delta_inclusion.threshold) /= {}
                /\ IsDelta(j) <=> chosen /= <<>>
                /\ IsDelta(j) =>
                      /\ chosen = <<e.deltas[FirstSmallest(e)]>>
                      /\ out[j].item.base_oid = e.deltas[FirstSmallest(e)].base
                      /\ out[j].item.csize = e.deltas[FirstSmallest(e)].csize

\* a delta was emitted for an entry whose last two deltas have the same size
\* and different bases: the earlier of the two was chosen
C28_Witness ==
    \E j \in TreeItems :
        LET d == EntryOf(j).deltas
        IN  /\ IsDelta(j)
            /\ Len(d) >= 2
            /\ d[Len(d) - 1].csize = d[Len(d)].csize
            /\ d[Len(d) - 1].base /= d[Len(d)].base
            /\ out[j].item.base_oid = d[Len(d) - 1].base
            /\ out[j].item.csize = d[Len(d)].csize

RequestedHeads ==
    IF req.handler = "pack"
    THEN Range(bookmarks(req.requested_refs))
    ELSE ExpectedBonsais(req.heads)
RequestedHaves ==
    IF req.handler = "pack" THEN req.have_heads ELSE ExpectedBonsais(req.bases)
TargetDifference == AncestorsDifference(RequestedHeads, RequestedHaves)

\* C29: the target commit list is the ancestors of the heads minus the
\* ancestors of the haves, each once, in the reverse of an order the commit
\* graph returns (every commit after its ancestors); the commit sub-stream
\* yields one item per commit of the difference and none for a have or an
\* ancestor of a have, and tree/blob items come only from the manifests of
\* commits of the difference.
C29_TargetsAreDifference ==
    resp.status = "ok" =>
        LET D == TargetDifference
            sent == {out[i].item.cs : i \in CommitItems}
        IN  /\ Range(resp.commits) = D
            /\ Len(resp.commits) = Cardinality(D)
            /\ \A i, k \in DOMAIN resp.commits :
                  i < k => resp.commits[k] \notin ProperAncestors(resp.commits[i])
            /\ sent \subseteq D
            /\ sent \cap Ancestors(RequestedHaves) = {}
            /\ Cardinality(sent) = Cardinality(CommitItems)
            /\ seg \in {"tree", "end"} => sent = D
            /\ \A i \in TreeItems : out[i].item.cs \in D

\* a stream was drained for a have that has an ancestor, both reachable
\* from the heads, and commits and tree entries were sent
C29_Witness ==
    /\ Drained
    /\ \E h \in RequestedHaves :
          /\ ProperAncestors(h) /= {}
          /\ AncestorsOfOne(h) \subseteq Ancestors(RequestedHeads)
    /\ CommitItems /= {}
    /\ TreeItems /= {}

NoHeadSymref == \A e \in symrefTable : e.symref_name /= HEAD_REF
BookmarkRefs == refs_to_include(SelectedBookmarks, req.tag_inclusion)
Answered == {r \in {lsResp, resp} : r.status /= "none"}

\* C30: with IncludeHead and no HEAD symref entry both handlers fail; with
\* IncludeAll and no symref entry at all they succeed whenever the bookmarks
\* resolve, and return the bookmark-derived ref map as it is.
C30_MissingHeadFails ==
    /\ (req.requested_symrefs.kind = "IncludeHead" /\ NoHeadSymref) =>
          \A r \in Answered : r.status = "err"
    /\ (req.requested_symrefs.kind = "IncludeAll" /\ symrefTable = {}
           /\ bookmarksOk(req.requested_refs) /\ BookmarkRefs.ok) =>
          \A r \in Answered : r.status = "ok" /\ r.refs = BookmarkRefs.refs

\* both handlers failed under IncludeHead on a repository without a HEAD
\* symref whose selected bookmarks all resolve to a non-empty ref map
C30_Witness ==
    /\ req.requested_symrefs.kind = "IncludeHead"
    /\ NoHeadSymref
    /\ bookmarksOk(req.requested_refs)
    /\ BookmarkRefs.ok
    /\ DOMAIN BookmarkRefs.refs /= {}
    /\ lsResp.status = "err"
    /\ resp.status = "err"

====
